---- MODULE Spec2Model ----
(***************************************************************************)
(* Data-access core of the CRM system: the connection manager              *)
(* (db_config.py, DatabaseConnection), the schema initializer              *)
(* (db_config.py, init_database), the query executor (models.py,           *)
(* BaseModel._execute_query) and the entity repositories built on it.      *)
(*                                                                         *)
(* The database engine is MySQL reached through mysql.connector: a         *)
(* session has autocommit off, CREATE TABLE commits implicitly, INSERT     *)
(* IGNORE skips rows that violate a unique key, LAST_INSERT_ID() is kept   *)
(* per session, and a session that ends loses its uncommitted work.        *)
(***************************************************************************)
EXTENDS Integers, Sequences, FiniteSets, TLC

VARIABLES
    instance,     \* DatabaseConnection._instance has been created
    connection,   \* DatabaseConnection._instance.connection: 0 (None) or a handle
    conns,        \* every handle opened so far: [live, lastId]
    db,           \* the committed database
    work,         \* the database as the current session sees it (db + pending)
    bcryptStrict, \* the installed bcrypt rejects passwords over 72 bytes
    pwOf,         \* username -> plaintext given to the create_user that made it
    op,           \* the last call: its name, arguments and environment
    ret,          \* what the last call returned or raised, and what it issued
    before,       \* the committed database when the last call started
    now,          \* the server's clock, in seconds (CURRENT_TIMESTAMP)
    heap,         \* cls._instance and the objects __new__ has allocated
    thr           \* the threads: where each is in its call, and its locals

vars ==
    <<instance, connection, conns, db, work, bcryptStrict, pwOf, op, ret, before, now,
      heap, thr>>

-----------------------------------------------------------------------------
(* Bounds *)

MaxOpens == 2        \* handles opened in one run
MaxExtraRefs == 1    \* roles / statuses created beyond the seeded ones, each
MaxUsers == 2        \* user rows
MaxContacts == 1     \* contact rows
MaxTasks == 1        \* task rows
MaxClock == 1        \* seconds the server's clock advances
MaxRows == 2         \* contact / task rows where a write must leave the others alone
MaxCalls == 1        \* calls a thread makes after its first

-----------------------------------------------------------------------------
(* Values *)

None == 0            \* Python None / SQL NULL for a handle or an id
NullStr == "NULL"    \* SQL NULL for a text column

TableNames == {"roles", "users", "contacts", "task_status", "tasks"}

\* The columns each CREATE TABLE of init_database declares.
Columns(t) ==
    CASE t = "roles" -> {"role_id", "role_name", "description", "created_at", "updated_at"}
      [] t = "users" -> {"user_id", "username", "password_hash", "email", "role_id",
                         "manager_id", "is_active", "created_at", "updated_at"}
      [] t = "contacts" -> {"contact_id", "first_name", "last_name", "email", "phone",
                            "company", "assigned_to", "notes", "created_at", "updated_at"}
      [] t = "task_status" -> {"status_id", "status_name", "description", "created_at"}
      [] t = "tasks" -> {"task_id", "title", "description", "assigned_to", "assigned_by",
                         "due_date", "status_id", "priority", "created_at", "updated_at"}

\* The primary key column of each table.
KeyOf(t) ==
    CASE t = "roles" -> "role_id"
      [] t = "users" -> "user_id"
      [] t = "contacts" -> "contact_id"
      [] t = "task_status" -> "status_id"
      [] t = "tasks" -> "task_id"

SeedRoles == <<"admin", "manager", "employee">>
SeedStatuses == <<"not_started", "in_progress", "completed", "on_hold">>

\* A database with no table.
EmptyDb ==
    [tables |-> {},
     rows |-> [t \in TableNames |-> {}],
     autoinc |-> [t \in TableNames |-> 1]]

SeqToSet(s) == {s[i] : i \in 1..Len(s)}

-----------------------------------------------------------------------------
(* The world an operation runs in, and what it hands back *)

World ==
    [connection |-> connection, conns |-> conns, db |-> db, work |-> work, now |-> now]

\* An outcome: the world after, "ok" or "raise", the value returned or the
\* error raised, and the opens, commits, rollbacks and error logs issued.
Ok(w, val) ==
    [w |-> w, kind |-> "ok", val |-> val, cause |-> "none",
     opens |-> 0, commits |-> 0, rollbacks |-> 0, logs |-> 0]

Raise(w, err, cause) ==
    [w |-> w, kind |-> "raise", val |-> err, cause |-> cause,
     opens |-> 0, commits |-> 0, rollbacks |-> 0, logs |-> 0]

\* The outcome of a call made inside another: o2 ran after o1.
After(o1, o2) ==
    [o2 EXCEPT !.opens = o1.opens + o2.opens,
               !.commits = o1.commits + o2.commits,
               !.rollbacks = o1.rollbacks + o2.rollbacks,
               !.logs = o1.logs + o2.logs]

-----------------------------------------------------------------------------
(* Connection manager: DatabaseConnection *)

\* `self.connection and self.connection.is_connected()`
IsConnected(w) == w.connection # None /\ w.conns[w.connection].live

\* mysql.connector.connect(**DB_CONFIG): a new session, nothing pending.
OpenHandle(w) ==
    [w EXCEPT !.conns = Append(w.conns, [live |-> TRUE, lastId |-> 0]),
              !.connection = Len(w.conns) + 1,
              !.work = w.db]

\* The session of the stored handle ends (close, or the link is lost): the
\* server rolls its pending work back.
EndSession(w) ==
    [w EXCEPT !.conns[w.connection] = [live |-> FALSE, lastId |-> 0], !.work = w.db]

Connect_AlwaysOpen(w, openOk) ==
    IF openOk
    THEN [Ok(OpenHandle(w), None) EXCEPT !.opens = 1]
    ELSE [Raise(w, "ConnectionError", "open") EXCEPT !.opens = 1, !.logs = 1]

Connect_ClearOnFailure(w, openOk) ==
    IF IsConnected(w) THEN Ok(w, None)
    ELSE IF openOk
         THEN [Ok(OpenHandle(w), None) EXCEPT !.opens = 1]
         ELSE [Raise([w EXCEPT !.connection = None], "ConnectionError", "open")
                   EXCEPT !.opens = 1, !.logs = 1]

\* connect()
Connect(w, openOk) ==
    IF IsConnected(w) THEN Ok(w, None)
    ELSE IF openOk
         THEN [Ok(OpenHandle(w), None) EXCEPT !.opens = 1]
         ELSE [Raise(w, "ConnectionError", "open") EXCEPT !.opens = 1, !.logs = 1]

\* disconnect(); closeOk = FALSE: close() raises and the handle stays open.
Disconnect(w, closeOk) ==
    IF ~IsConnected(w) THEN Ok(w, None)
    ELSE IF closeOk
         THEN Ok(EndSession(w), None)
         ELSE [Raise(w, "ConnectionError", "close") EXCEPT !.logs = 1]

GetConnection_NoReconnect(w, openOk) == Ok(w, w.connection)

\* get_connection()
GetConnection(w, openOk) ==
    LET Returned(c) == IF c.kind = "raise" THEN c ELSE [c EXCEPT !.val = c.w.connection]
    IN IF ~IsConnected(w) THEN Returned(Connect(w, openOk))
       ELSE Ok(w, w.connection)

-----------------------------------------------------------------------------
(* The database engine, as far as the statements of this repository use it *)

RECURSIVE SortedRows(_, _)
\* The rows of S as a sequence, by ascending key column.
SortedRows(S, key) ==
    IF S = {} THEN <<>>
    ELSE LET m == CHOOSE x \in S : \A y \in S : x[key] <= y[key]
         IN <<m>> \o SortedRows(S \ {m}, key)

\* Row r with one more column.
WithColumn(r, c, v) == [f \in DOMAIN r \cup {c} |-> IF f = c THEN v ELSE r[f]]

Priorities == {"low", "medium", "high"}

\* Row r (without its key) cannot be stored in table t of database d: a NOT
\* NULL, UNIQUE, ENUM or FOREIGN KEY constraint of the CREATE TABLE forbids it.
Violates(d, t, r) ==
    CASE t = "roles" ->
           \/ r.role_name = NullStr
           \/ \E x \in d.rows["roles"] : x.role_name = r.role_name
      [] t = "task_status" ->
           \/ r.status_name = NullStr
           \/ \E x \in d.rows["task_status"] : x.status_name = r.status_name
      [] t = "users" ->
           \/ r.username = NullStr
           \/ r.email = NullStr
           \/ \E x \in d.rows["users"] : x.username = r.username \/ x.email = r.email
           \/ r.role_id # None /\ ~\E x \in d.rows["roles"] : x.role_id = r.role_id
           \/ r.manager_id # None /\ ~\E x \in d.rows["users"] : x.user_id = r.manager_id
      [] t = "contacts" ->
           \/ r.first_name = NullStr
           \/ r.last_name = NullStr
           \/ r.assigned_to # None
                /\ ~\E x \in d.rows["users"] : x.user_id = r.assigned_to
      [] t = "tasks" ->
           \/ r.title = NullStr
           \/ r.priority \notin Priorities \cup {NullStr}
           \/ r.assigned_to # None
                /\ ~\E x \in d.rows["users"] : x.user_id = r.assigned_to
           \/ r.assigned_by # None
                /\ ~\E x \in d.rows["users"] : x.user_id = r.assigned_by
           \/ r.status_id # None
                /\ ~\E x \in d.rows["task_status"] : x.status_id = r.status_id

\* Row r of table t as written at time t0: `updated_at TIMESTAMP DEFAULT
\* CURRENT_TIMESTAMP` on insert, `updated_at = CURRENT_TIMESTAMP` on update.
Stamped(t, r, t0) ==
    IF "updated_at" \in Columns(t) THEN WithColumn(r, "updated_at", t0) ELSE r

\* Database d with row r stored in table t under the next generated key.
StoreRow(d, t, r) ==
    [d EXCEPT !.rows[t] = @ \cup {WithColumn(r, KeyOf(t), d.autoinc[t])},
              !.autoinc[t] = @ + 1]

RECURSIVE InsertRows(_, _, _, _, _)
\* INSERT [IGNORE] INTO t VALUES rs[i], rs[i+1], ...: the database after, and
\* whether the statement failed, and the first key it generated (0: none).
InsertRows(d, t, rs, ignore, i) ==
    IF i > Len(rs) THEN [failed |-> FALSE, d |-> d, firstId |-> 0]
    ELSE IF Violates(d, t, rs[i])
         THEN IF ignore THEN InsertRows(d, t, rs, ignore, i + 1)
              ELSE [failed |-> TRUE, d |-> d, firstId |-> 0]
         ELSE LET rest == InsertRows(StoreRow(d, t, rs[i]), t, rs, ignore, i + 1)
              IN [rest EXCEPT !.firstId = d.autoinc[t]]

\* The <<table, column>> pairs a statement names.
StmtRefs(stmt) ==
    CASE stmt.kind = "create_table" -> {}
      [] stmt.kind = "insert" ->
           {<<stmt.table, c>> : c \in UNION {DOMAIN stmt.rows[i] : i \in 1..Len(stmt.rows)}}
      [] stmt.kind = "update" ->
           {<<stmt.table, c>> : c \in DOMAIN stmt.set \cup {KeyOf(stmt.table), "updated_at"}}
      [] stmt.kind = "last_insert_id" -> {}
      [] stmt.kind = "select" /\ stmt.name = "verify_password" ->
           {<<"users", "password_hash">>, <<"users", "username">>}
      [] stmt.kind = "select" /\ stmt.name = "get_user" ->
           {<<"users", "role_id">>, <<"roles", "role_id">>, <<"roles", "role_name">>,
            <<"users", "user_id">>}
      [] stmt.kind = "select" /\ stmt.name = "get_user_by_username" ->
           {<<"users", "role_id">>, <<"roles", "role_id">>, <<"roles", "role_name">>,
            <<"users", "username">>}
      [] stmt.kind = "select" /\ stmt.name = "get_contact" ->
           {<<"contacts", "contact_id">>}
      [] stmt.kind = "select" /\ stmt.name = "get_task" ->
           {<<"tasks", "task_id">>, <<"tasks", "status_id">>, <<"tasks", "assigned_to">>,
            <<"tasks", "assigned_by">>, <<"task_status", "status_id">>,
            <<"task_status", "status_name">>, <<"users", "user_id">>,
            <<"users", "first_name">>, <<"users", "last_name">>}
      [] stmt.kind = "select" /\ stmt.name = "get_tasks_by_user" ->
           {<<"tasks", "status_id">>, <<"tasks", "assigned_to">>, <<"tasks", "assigned_by">>,
            <<"tasks", "due_date">>, <<"task_status", "status_id">>,
            <<"task_status", "status_name">>, <<"users", "user_id">>,
            <<"users", "first_name">>, <<"users", "last_name">>}
      [] stmt.kind = "select" /\ stmt.name = "get_tasks_by_manager" ->
           {<<"tasks", "status_id">>, <<"tasks", "assigned_to">>, <<"tasks", "assigned_by">>,
            <<"tasks", "due_date">>, <<"task_status", "status_id">>,
            <<"task_status", "status_name">>, <<"users", "user_id">>,
            <<"users", "first_name">>, <<"users", "last_name">>}
      [] stmt.kind = "select" /\ stmt.name = "get_roles" -> {<<"roles", "role_id">>}

\* The error the server answers a statement with before running it, if any.
ResolveError(d, stmt) ==
    LET refs == StmtRefs(stmt)
    IN IF \E p \in refs : p[1] \notin d.tables THEN "NoSuchTable"
       ELSE IF \E p \in refs : p[2] \notin Columns(p[1]) THEN "UnknownColumn"
       ELSE "none"

\* The rows a SELECT of this repository returns from database d.
SelectRows(d, name, arg) ==
    CASE name = "verify_password" ->
           SortedRows({u \in d.rows["users"] : u.username = arg}, "user_id")
      [] name = "get_user" ->
           SortedRows({WithColumn(u, "role_name", r.role_name) :
                         <<u, r>> \in {p \in d.rows["users"] \X d.rows["roles"] :
                                         /\ p[1].role_id = p[2].role_id
                                         /\ p[1].user_id = arg}}, "user_id")
      [] name = "get_user_by_username" ->
           SortedRows({WithColumn(u, "role_name", r.role_name) :
                         <<u, r>> \in {p \in d.rows["users"] \X d.rows["roles"] :
                                         /\ p[1].role_id = p[2].role_id
                                         /\ p[1].username = arg}}, "user_id")
      [] name = "get_contact" ->
           SortedRows({c \in d.rows["contacts"] : c.contact_id = arg}, "contact_id")
      [] name = "get_task" ->
           SortedRows({WithColumn(t, "status_name", s.status_name) :
                         <<t, s>> \in {p \in d.rows["tasks"] \X d.rows["task_status"] :
                                         /\ p[1].status_id = p[2].status_id
                                         /\ p[1].task_id = arg
                                         /\ \E u \in d.rows["users"] :
                                               u.user_id = p[1].assigned_to
                                         /\ \E u \in d.rows["users"] :
                                               u.user_id = p[1].assigned_by}}, "task_id")
      [] name = "get_tasks_by_user" ->
           SortedRows({WithColumn(t, "status_name", s.status_name) :
                         <<t, s>> \in {p \in d.rows["tasks"] \X d.rows["task_status"] :
                                         /\ p[1].status_id = p[2].status_id
                                         /\ p[1].assigned_to = arg
                                         /\ \E u \in d.rows["users"] :
                                               u.user_id = p[1].assigned_by}}, "due_date")
      [] name = "get_tasks_by_manager" ->
           SortedRows({WithColumn(t, "status_name", s.status_name) :
                         <<t, s>> \in {p \in d.rows["tasks"] \X d.rows["task_status"] :
                                         /\ p[1].status_id = p[2].status_id
                                         /\ p[1].assigned_by = arg
                                         /\ \E u \in d.rows["users"] :
                                               u.user_id = p[1].assigned_to}}, "due_date")
      [] name = "get_roles" -> SortedRows(d.rows["roles"], "role_id")

\* cursor.execute(stmt) on the stored handle, the server answering: the
\* error ("none": it ran), the world after, and the result set.
RunStmt(w, stmt) ==
    LET err == ResolveError(w.work, stmt)
    IN IF err # "none" THEN [err |-> err, w |-> w, rows |-> <<>>]
       ELSE CASE stmt.kind = "create_table" ->
              \* implicit commit of what is pending, then the table, committed
              LET d == IF stmt.table \in w.work.tables /\ stmt.ifNotExists THEN w.work
                       ELSE [w.work EXCEPT !.tables = @ \cup {stmt.table}]
              IN IF stmt.table \in w.work.tables /\ ~stmt.ifNotExists
                 THEN [err |-> "TableExists", w |-> [w EXCEPT !.db = w.work],
                       rows |-> <<>>]
                 ELSE [err |-> "none", w |-> [w EXCEPT !.db = d, !.work = d],
                       rows |-> <<>>]
            [] stmt.kind = "insert" ->
              LET Inserted(i) ==
                      IF i.failed THEN [err |-> "IntegrityError", w |-> w, rows |-> <<>>]
                      ELSE [err |-> "none",
                            w |-> [w EXCEPT !.work = i.d,
                                            !.conns[w.connection].lastId =
                                                IF i.firstId = 0 THEN @ ELSE i.firstId],
                            rows |-> <<>>]
              IN Inserted(InsertRows(w.work, stmt.table,
                                     [k \in 1..Len(stmt.rows) |->
                                         Stamped(stmt.table, stmt.rows[k], w.now)],
                                     stmt.ignore, 1))
            [] stmt.kind = "update" ->
              LET t == stmt.table
                  hit == {x \in w.work.rows[t] : x[KeyOf(t)] = stmt.id}
                  new == {Stamped(t, [f \in DOMAIN x |->
                                        IF f \in DOMAIN stmt.set THEN stmt.set[f] ELSE x[f]],
                                  w.now) : x \in hit}
              IN IF \E x \in new : Violates(w.work, t, x)
                 THEN [err |-> "IntegrityError", w |-> w, rows |-> <<>>]
                 ELSE [err |-> "none",
                       w |-> [w EXCEPT !.work.rows[t] = (@ \ hit) \cup new],
                       rows |-> <<>>]
            [] stmt.kind = "last_insert_id" ->
              [err |-> "none", w |-> w,
               rows |-> <<[c \in {"LAST_INSERT_ID()"} |-> w.conns[w.connection].lastId]>>]
            [] stmt.kind = "select" ->
              [err |-> "none", w |-> w, rows |-> SelectRows(w.work, stmt.name, stmt.arg)]

\* connection.commit() / connection.rollback() on a live handle.
CommitWork(w) == [w EXCEPT !.db = w.work]
RollbackWork(w) == [w EXCEPT !.work = w.db]

-----------------------------------------------------------------------------
(* Schema initializer: init_database *)

InitStatements_PlainInsert ==
    <<[kind |-> "create_table", table |-> "roles", ifNotExists |-> TRUE],
      [kind |-> "create_table", table |-> "users", ifNotExists |-> TRUE],
      [kind |-> "create_table", table |-> "contacts", ifNotExists |-> TRUE],
      [kind |-> "create_table", table |-> "task_status", ifNotExists |-> TRUE],
      [kind |-> "create_table", table |-> "tasks", ifNotExists |-> TRUE],
      [kind |-> "insert", table |-> "roles", ignore |-> FALSE,
       rows |-> [i \in 1..Len(SeedRoles) |-> [role_name |-> SeedRoles[i]]]],
      [kind |-> "insert", table |-> "task_status", ignore |-> FALSE,
       rows |-> [i \in 1..Len(SeedStatuses) |-> [status_name |-> SeedStatuses[i]]]]>>

\* The seven statements of init_database, in order.
InitStatements ==
    <<[kind |-> "create_table", table |-> "roles", ifNotExists |-> TRUE],
      [kind |-> "create_table", table |-> "users", ifNotExists |-> TRUE],
      [kind |-> "create_table", table |-> "contacts", ifNotExists |-> TRUE],
      [kind |-> "create_table", table |-> "task_status", ifNotExists |-> TRUE],
      [kind |-> "create_table", table |-> "tasks", ifNotExists |-> TRUE],
      [kind |-> "insert", table |-> "roles", ignore |-> TRUE,
       rows |-> [i \in 1..Len(SeedRoles) |-> [role_name |-> SeedRoles[i]]]],
      [kind |-> "insert", table |-> "task_status", ignore |-> TRUE,
       rows |-> [i \in 1..Len(SeedStatuses) |-> [status_name |-> SeedStatuses[i]]]]>>

\* What the `except Error` handlers do with a failure met on the stored
\* handle: rollback, then log, then re-raise.  On a handle whose link is
\* lost the rollback itself raises, before the log line.
OnError(w, err, cause) ==
    IF IsConnected(w)
    THEN [Raise(RollbackWork(w), err, cause) EXCEPT !.rollbacks = 1, !.logs = 1]
    ELSE [Raise(w, "OperationalError", cause) EXCEPT !.rollbacks = 1]

RECURSIVE InitFrom(_, _, _)
\* The try block of init_database from statement k on.  fault = [at, kind]:
\* the environment makes statement `at` fail ("sql": the server refuses it,
\* "lost": the link is lost while it runs); at = 0: no such failure.
InitFrom(w, k, fault) ==
    IF k > Len(InitStatements)
    THEN [Ok(CommitWork(w), None) EXCEPT !.commits = 1]
    ELSE IF fault.at = k
         THEN IF fault.kind = "lost" THEN OnError(EndSession(w), "OperationalError", "lost")
              ELSE OnError(w, "DatabaseError", "stmt")
         ELSE LET Executed(r) == IF r.err # "none" THEN OnError(r.w, r.err, "stmt")
                                 ELSE InitFrom(r.w, k + 1, fault)
              IN Executed(RunStmt(w, InitStatements[k]))

\* init_database(), after `db = DatabaseConnection()`.
InitDatabase(w, openOk, fault) ==
    LET Try(g) == IF g.kind = "raise" THEN g
                  ELSE After(g, InitFrom(g.w, 1, fault))
    IN Try(GetConnection(w, openOk))

-----------------------------------------------------------------------------
(* Query executor: BaseModel._execute_query *)

ExecuteQuery_CommitAlways(w, stmt, fetch, env) ==
    LET g == GetConnection(w, env.open)
    IN IF g.kind = "raise" THEN g
       ELSE IF env.fault = "lost"
            THEN After(g, OnError(EndSession(g.w), "OperationalError", "lost"))
       ELSE IF env.fault = "sql" THEN After(g, OnError(g.w, "DatabaseError", "stmt"))
       ELSE LET r == RunStmt(g.w, stmt)
            IN IF r.err # "none"
               THEN After(g, [Raise(CommitWork(r.w), r.err, "stmt")
                                 EXCEPT !.commits = 1, !.logs = 1])
               ELSE After(g, [Ok(CommitWork(r.w), IF fetch THEN r.rows ELSE None)
                                 EXCEPT !.commits = 1])

ExecuteQuery_NoRollback(w, stmt, fetch, env) ==
    LET g == GetConnection(w, env.open)
    IN IF g.kind = "raise" THEN g
       ELSE IF env.fault = "lost"
            THEN After(g, Raise(EndSession(g.w), "OperationalError", "lost"))
       ELSE IF env.fault = "sql"
            THEN After(g, [Raise(g.w, "DatabaseError", "stmt") EXCEPT !.logs = 1])
       ELSE LET r == RunStmt(g.w, stmt)
            IN IF r.err # "none"
               THEN After(g, [Raise(r.w, r.err, "stmt") EXCEPT !.logs = 1])
               ELSE IF fetch
                    THEN IF stmt.kind \in {"select", "last_insert_id"}
                         THEN After(g, Ok(r.w, r.rows))
                         ELSE After(g, [Raise(r.w, "InterfaceError", "stmt")
                                           EXCEPT !.logs = 1])
                    ELSE After(g, [Ok(CommitWork(r.w), None) EXCEPT !.commits = 1])

\* _execute_query(query, params, fetch).  env = [open, fault]: whether an
\* open, if one is needed, succeeds, and whether the environment makes the
\* statement fail ("none", "sql", "lost").
ExecuteQuery(w, stmt, fetch, env) ==
    LET Executed(r) ==
            IF r.err # "none" THEN OnError(r.w, r.err, "stmt")
            ELSE IF fetch
                 THEN IF stmt.kind \in {"select", "last_insert_id"}
                      THEN Ok(r.w, r.rows)
                      \* fetchall() with no result set raises InterfaceError
                      ELSE OnError(r.w, "InterfaceError", "stmt")
                 ELSE [Ok(CommitWork(r.w), None) EXCEPT !.commits = 1]
        Try(g) ==
            IF g.kind = "raise" THEN g
            ELSE IF env.fault = "lost"
                 THEN After(g, OnError(EndSession(g.w), "OperationalError", "lost"))
            ELSE IF env.fault = "sql" THEN After(g, OnError(g.w, "DatabaseError", "stmt"))
            ELSE After(g, Executed(RunStmt(g.w, stmt)))
    IN Try(GetConnection(w, env.open))

-----------------------------------------------------------------------------
(* Password hashing: str.encode('utf-8') and bcrypt *)

BcryptMaxLen == 72   \* bcrypt reads at most this many bytes of a password

\* The UTF-8 bytes of one character.
Utf8(c) ==
    CASE c = "a" -> <<97>>
      [] c = "x" -> <<120>>
      [] c = "e'" -> <<195, 169>>     \* U+00E9

RECURSIVE Utf8Bytes(_)
\* The UTF-8 bytes of a string.
Utf8Bytes(s) == IF s = <<>> THEN <<>> ELSE Utf8(Head(s)) \o Utf8Bytes(Tail(s))

Rep(c, n) == [i \in 1..n |-> c]

\* Plaintexts around the 72-byte mark, one of them in two-byte characters.
Passwords ==
    {Rep("a", 1), Rep("a", BcryptMaxLen), Rep("e'", BcryptMaxLen \div 2)}
Candidates == Passwords \cup {Append(p, "x") : p \in Passwords}

\* password.encode('utf-8'), tabulated over the plaintexts in use.
EncodeTable == [p \in Candidates |-> Utf8Bytes(p)]
Encode(s) == EncodeTable[s]

\* The bytes bcrypt derives the hash from.
BcryptKey(bytes) ==
    IF Len(bytes) > BcryptMaxLen THEN SubSeq(bytes, 1, BcryptMaxLen) ELSE bytes

\* bcrypt.hashpw(bytes, salt): "$" salt digest; the digest is an injective
\* one-way image of the salt and the key, written here as the key itself.
\* A strict bcrypt raises ValueError on more than 72 bytes.
Hashpw(bytes, salt) ==
    IF bcryptStrict /\ Len(bytes) > BcryptMaxLen
    THEN [err |-> TRUE, hash |-> <<>>]
    ELSE [err |-> FALSE, hash |-> <<36, salt>> \o BcryptKey(bytes)]

\* bcrypt.checkpw(bytes, stored): re-hash with the stored salt and compare.
Checkpw(bytes, stored) ==
    LET h == Hashpw(bytes, stored[2])
    IN [err |-> h.err, match |-> ~h.err /\ h.hash = stored]

-----------------------------------------------------------------------------
(* Entity repositories *)

\* The two executor calls every create method ends with: the INSERT, then
\* SELECT LAST_INSERT_ID().  env = [open1, fault1, drop, open2, fault2]:
\* the environment of each call, and whether the link is lost between them.
InsertThenLastId(w, stmt, env) ==
    LET Returned(o2) ==
            IF o2.kind = "raise" THEN o2
            ELSE [o2 EXCEPT !.val = o2.val[1]["LAST_INSERT_ID()"]]
        LastId(o1) ==
            IF o1.kind = "raise" THEN o1
            ELSE Returned(After(o1,
                     ExecuteQuery(IF env.drop THEN EndSession(o1.w) ELSE o1.w,
                                  [kind |-> "last_insert_id"], TRUE,
                                  [open |-> env.open2, fault |-> env.fault2])))
    IN LastId(ExecuteQuery(w, stmt, FALSE, [open |-> env.open1, fault |-> env.fault1]))

\* User.create_user
CreateUser(w, username, password, email, role_id, manager_id, salt, env) ==
    LET Logged(o) == IF o.kind = "raise" THEN [o EXCEPT !.logs = @ + 1] ELSE o
        Stored(h) ==
            IF h.err THEN Raise(w, "ValueError", "bcrypt")
            ELSE Logged(InsertThenLastId(w,
                     [kind |-> "insert", table |-> "users", ignore |-> FALSE,
                      rows |-> <<[username |-> username, password_hash |-> h.hash,
                                  email |-> email, role_id |-> role_id,
                                  manager_id |-> manager_id]>>], env))
    IN Stored(Hashpw(Encode(password), salt))

\* User.verify_password
VerifyPassword(w, username, password, env) ==
    LET Compared(o, c) ==
            IF c.err THEN [o EXCEPT !.kind = "raise", !.val = "ValueError",
                                    !.cause = "bcrypt"]
            ELSE [o EXCEPT !.val = c.match]
        Fetched(o) ==
            IF o.kind = "raise" THEN o
            ELSE IF o.val # <<>>
                 THEN Compared(o, Checkpw(Encode(password), o.val[1].password_hash))
                 ELSE [o EXCEPT !.val = FALSE]
    IN Fetched(ExecuteQuery(w, [kind |-> "select", name |-> "verify_password",
                                arg |-> username], TRUE, env))

\* `result[0] if result else None` over one SELECT: User.get_user,
\* User.get_user_by_username, Contact.get_contact, Task.get_task.
GetOne(w, name, arg, env) ==
    LET Fetched(o) == IF o.kind = "raise" THEN o
                      ELSE IF o.val # <<>> THEN [o EXCEPT !.val = <<o.val[1]>>]
                      ELSE [o EXCEPT !.val = <<>>]
    IN Fetched(ExecuteQuery(w, [kind |-> "select", name |-> name, arg |-> arg],
                            TRUE, env))

\* Contact.create_contact; data.get(k) of a missing key is None.
CreateContact(w, data, env) ==
    InsertThenLastId(w,
        [kind |-> "insert", table |-> "contacts", ignore |-> FALSE,
         rows |-> <<[first_name |-> data.first_name, last_name |-> data.last_name,
                     email |-> IF "email" \in DOMAIN data THEN data.email ELSE NullStr,
                     phone |-> IF "phone" \in DOMAIN data THEN data.phone ELSE NullStr,
                     company |-> IF "company" \in DOMAIN data THEN data.company ELSE NullStr,
                     assigned_to |-> IF "assigned_to" \in DOMAIN data
                                     THEN data.assigned_to ELSE None,
                     notes |-> IF "notes" \in DOMAIN data THEN data.notes ELSE NullStr]>>],
        env)

\* No default: a missing priority is stored as NULL.
CreateTask_NoDefault(w, data, env) ==
    InsertThenLastId(w,
        [kind |-> "insert", table |-> "tasks", ignore |-> FALSE,
         rows |-> <<[title |-> data.title,
                     description |-> IF "description" \in DOMAIN data
                                     THEN data.description ELSE NullStr,
                     assigned_to |-> data.assigned_to, assigned_by |-> data.assigned_by,
                     due_date |-> data.due_date, status_id |-> data.status_id,
                     priority |-> IF "priority" \in DOMAIN data
                                  THEN data.priority ELSE NullStr]>>],
        env)

\* Task.create_task; data.get('priority', 'medium').
CreateTask(w, data, env) ==
    InsertThenLastId(w,
        [kind |-> "insert", table |-> "tasks", ignore |-> FALSE,
         rows |-> <<[title |-> data.title,
                     description |-> IF "description" \in DOMAIN data
                                     THEN data.description ELSE NullStr,
                     assigned_to |-> data.assigned_to, assigned_by |-> data.assigned_by,
                     due_date |-> data.due_date, status_id |-> data.status_id,
                     priority |-> IF "priority" \in DOMAIN data
                                  THEN data.priority ELSE "medium"]>>],
        env)

\* ReferenceData.create_role
CreateRole(w, role_name, env) ==
    InsertThenLastId(w, [kind |-> "insert", table |-> "roles", ignore |-> FALSE,
                         rows |-> <<[role_name |-> role_name]>>], env)

\* ReferenceData.create_task_status
CreateTaskStatus(w, status_name, env) ==
    InsertThenLastId(w, [kind |-> "insert", table |-> "task_status", ignore |-> FALSE,
                         rows |-> <<[status_name |-> status_name]>>], env)

\* The UPDATE of Contact.update_contact; data.get(k) of a missing key is None.
\* A partial patch: only the columns data names are set.
UpdateContactStmt_KeepMissing(contact_id, data) ==
    [kind |-> "update", table |-> "contacts", id |-> contact_id,
     set |-> [f \in DOMAIN data |-> data[f]]]

UpdateContactStmt(contact_id, data) ==
    [kind |-> "update", table |-> "contacts", id |-> contact_id,
     set |-> [first_name |-> data.first_name, last_name |-> data.last_name,
              email |-> IF "email" \in DOMAIN data THEN data.email ELSE NullStr,
              phone |-> IF "phone" \in DOMAIN data THEN data.phone ELSE NullStr,
              company |-> IF "company" \in DOMAIN data THEN data.company ELSE NullStr,
              assigned_to |-> IF "assigned_to" \in DOMAIN data
                              THEN data.assigned_to ELSE None,
              notes |-> IF "notes" \in DOMAIN data THEN data.notes ELSE NullStr]]

\* Contact.update_contact
UpdateContact(w, contact_id, data, env) ==
    LET Returned(o) == IF o.kind = "raise" THEN o ELSE [o EXCEPT !.val = TRUE]
    IN Returned(ExecuteQuery(w, UpdateContactStmt(contact_id, data), FALSE, env))

\* Task.update_task_status
\* A wider update: the priority is reset as well.
UpdateTaskStatus_ResetPriority(w, task_id, status_id, env) ==
    LET Returned(o) == IF o.kind = "raise" THEN o ELSE [o EXCEPT !.val = TRUE]
    IN Returned(ExecuteQuery(w, [kind |-> "update", table |-> "tasks", id |-> task_id,
                                 set |-> [status_id |-> status_id,
                                          priority |-> "medium"]], FALSE, env))

UpdateTaskStatus(w, task_id, status_id, env) ==
    LET Returned(o) == IF o.kind = "raise" THEN o ELSE [o EXCEPT !.val = TRUE]
    IN Returned(ExecuteQuery(w, [kind |-> "update", table |-> "tasks", id |-> task_id,
                                 set |-> [status_id |-> status_id]], FALSE, env))

\* Task.get_tasks_by_user: one of two queries, by the as_manager flag.
GetTasksByUser(w, user_id, as_manager, env) ==
    ExecuteQuery(w, [kind |-> "select",
                     name |-> IF as_manager THEN "get_tasks_by_manager"
                              ELSE "get_tasks_by_user",
                     arg |-> user_id], TRUE, env)

\* ReferenceData.get_roles
GetRoles(w, env) ==
    ExecuteQuery(w, [kind |-> "select", name |-> "get_roles", arg |-> None], TRUE, env)

-----------------------------------------------------------------------------
(* Inputs *)

Usernames == {"alice", "bob"}
Salts == {1, 2}
ExtraRoleNames == {"auditor", "guest"}
ExtraStatusNames == {"cancelled", "blocked"}

ContactInputs ==
    {[first_name |-> "Ann", last_name |-> "Lee"],
     [first_name |-> "Ann", last_name |-> "Ray", email |-> "ann@x"],
     [first_name |-> "Ann", last_name |-> "Lee", assigned_to |-> 3]}

TaskInputs ==
    {[title |-> "call", assigned_to |-> 1, assigned_by |-> 1, due_date |-> 1,
      status_id |-> 1],
     [title |-> "call", assigned_to |-> 1, assigned_by |-> 2, due_date |-> 2,
      status_id |-> 2, priority |-> "high"],
     [title |-> "call", assigned_to |-> 3, assigned_by |-> 1, due_date |-> 1,
      status_id |-> 1]}

\* data['assigned_to'] given as None: the key is there, the reference is not.
NullRefTaskInputs ==
    {[title |-> "mail", assigned_to |-> None, assigned_by |-> 1, due_date |-> 1,
      status_id |-> 1]}

\* Two seeded statuses and an id no status has.
StatusInputs == {1, 2, 9}

LookupIds == {1, 2}

\* Environments of one executor call.  An open can fail only if one is made.
\* Tasks a user assigns to themself.
OwnTaskInputs ==
    {[title |-> "call", assigned_to |-> 1, assigned_by |-> 1, due_date |-> 1,
      status_id |-> 1],
     [title |-> "call", assigned_to |-> 1, assigned_by |-> 1, due_date |-> 2,
      status_id |-> 2, priority |-> "high"]}

ExecEnvs(w) ==
    {[open |-> TRUE, fault |-> f] : f \in {"none", "sql", "lost"}}
    \cup IF IsConnected(w) THEN {} ELSE {[open |-> FALSE, fault |-> "none"]}

\* Environments of a create method's two executor calls.
CreateEnvs(w) ==
    {[open1 |-> TRUE, fault1 |-> f, drop |-> FALSE, open2 |-> TRUE, fault2 |-> "none"] :
        f \in {"none", "sql", "lost"}}
    \cup {[open1 |-> TRUE, fault1 |-> "none", drop |-> FALSE, open2 |-> TRUE, fault2 |-> f] :
        f \in {"sql", "lost"}}
    \cup {[open1 |-> TRUE, fault1 |-> "none", drop |-> TRUE, open2 |-> o, fault2 |-> "none"] :
        o \in BOOLEAN}
    \cup IF IsConnected(w) THEN {}
         ELSE {[open1 |-> FALSE, fault1 |-> "none", drop |-> FALSE, open2 |-> TRUE,
                fault2 |-> "none"]}

\* Three of them: nothing fails, the INSERT is refused, the id query is refused.
SomeCreateEnvs ==
    {[open1 |-> TRUE, fault1 |-> f[1], drop |-> FALSE, open2 |-> TRUE, fault2 |-> f[2]] :
        f \in {<<"none", "none">>, <<"sql", "none">>, <<"none", "sql">>}}

CleanCreateEnvs == {env \in SomeCreateEnvs : env.fault1 = "none" /\ env.fault2 = "none"}

\* `manager_id: Optional[int] = None`
DefaultManagerId == None

InitFaults ==
    {[at |-> 0, kind |-> "none"]}
    \cup {[at |-> k, kind |-> f] : k \in 1..Len(InitStatements), f \in {"sql", "lost"}}

-----------------------------------------------------------------------------
(* Actions *)

\* What a call handed back, one field per type of value: the error raised,
\* or the id / handle, the boolean or the rows returned.
NoRet ==
    [kind |-> "ok", err |-> "none", id |-> None, flag |-> FALSE, rows |-> <<>>,
     cause |-> "none", opens |-> 0, commits |-> 0, rollbacks |-> 0, logs |-> 0]

\* The calls that return a boolean, and those that return rows.
FlagCalls == {"verify_password", "update_contact", "update_task_status"}
RowCalls ==
    {"get_user", "get_user_by_username", "get_contact", "get_task", "get_roles",
     "get_tasks_by_user"}

\* The key argument of a call: an id, or a name (of a user, or of the table a
\* create method writes), the plaintext that goes with a username, and the
\* `data` dictionary (or the other keyword arguments) of a create or update.
NoData == [none |-> TRUE]
NoKey == [id |-> None, text |-> "", pw |-> <<>>, data |-> NoData]
IdKey(i) == [NoKey EXCEPT !.id = i]
TextKey(t) == [NoKey EXCEPT !.text = t]
DataKey(key, d) == [key EXCEPT !.data = d]

\* The record of a call: its name, its key argument, whether the environment
\* injects no failure, and the handle the manager held when it started.
Call(name, key, clean) ==
    [name |-> name, id |-> key.id, text |-> key.text, pw |-> key.pw,
     data |-> key.data, clean |-> clean,
     held |-> connection, heldLive |-> IsConnected(World)]

\* The threads of the process.
Threads == {1, 2}

\* No object yet: `_instance = None`.
NoHeap == [cls |-> None, objs |-> <<>>]

\* The heap of a run in which one thread made every call: the one object,
\* and the handle it stores.
Mirror(conn) == [cls |-> 1, objs |-> <<[connection |-> conn]>>]

\* A thread that has called nothing: no instance, no handle, no statement.
IdleThread ==
    [pc |-> "idle", self |-> None, conn |-> None, data |-> NoData, fault |-> "none",
     wrote |-> {}, crossed |-> FALSE, calls |-> 0, res |-> "none"]

InitWith(Strict) ==
    /\ instance = FALSE
    /\ connection = None
    /\ conns = <<>>
    /\ db = EmptyDb
    /\ work = EmptyDb
    /\ bcryptStrict \in Strict
    /\ pwOf = [u \in {} |-> <<>>]
    /\ op = [name |-> "start", id |-> None, text |-> "", pw |-> <<>>, data |-> NoData,
             clean |-> TRUE, held |-> None, heldLive |-> FALSE]
    /\ ret = NoRet
    /\ before = EmptyDb
    /\ now = 0
    /\ heap = NoHeap
    /\ thr = [t \in Threads |-> IdleThread]

Init == InitWith({FALSE})

\* The call `call` ends with outcome o.
Finish(o, call) ==
    /\ Len(o.w.conns) <= MaxOpens
    /\ connection' = o.w.connection
    /\ conns' = o.w.conns
    /\ db' = o.w.db
    /\ work' = o.w.work
    /\ op' = call
    /\ ret' = [kind |-> o.kind,
               err |-> IF o.kind = "raise" THEN o.val ELSE "none",
               id |-> IF o.kind = "ok" /\ call.name \notin FlagCalls \cup RowCalls
                      THEN o.val ELSE None,
               flag |-> IF o.kind = "ok" /\ call.name \in FlagCalls THEN o.val ELSE FALSE,
               rows |-> IF o.kind = "ok" /\ call.name \in RowCalls THEN o.val ELSE <<>>,
               cause |-> o.cause, opens |-> o.opens,
               commits |-> o.commits, rollbacks |-> o.rollbacks, logs |-> o.logs]
    /\ before' = db
    /\ now' = now
    /\ heap' = Mirror(o.w.connection)
    /\ thr' = thr

CleanExec(env) == env.open /\ env.fault = "none"
CleanCreate(env) ==
    env.open1 /\ env.open2 /\ ~env.drop /\ env.fault1 = "none" /\ env.fault2 = "none"

\* DatabaseConnection(): __new__
New ==
    /\ instance' = TRUE
    /\ connection' = IF instance THEN connection ELSE None
    /\ heap' = Mirror(connection')
    /\ op' = Call("new", NoKey, TRUE)
    /\ ret' = NoRet
    /\ before' = db
    /\ UNCHANGED <<conns, db, work, bcryptStrict, pwOf, now, thr>>

\* The link of a live handle is lost (server restart, network, timeout).
Drop ==
    /\ \E h \in DOMAIN conns :
          /\ conns[h].live
          /\ conns' = [conns EXCEPT ![h] = [live |-> FALSE, lastId |-> 0]]
          /\ work' = IF h = connection THEN db ELSE work
    /\ op' = Call("drop", NoKey, TRUE)
    /\ ret' = NoRet
    /\ before' = db
    /\ UNCHANGED <<instance, connection, db, bcryptStrict, pwOf, now, heap, thr>>

\* A second passes on the server.
Tick ==
    /\ now < MaxClock
    /\ now' = now + 1
    /\ op' = Call("tick", NoKey, TRUE)
    /\ ret' = NoRet
    /\ before' = db
    /\ UNCHANGED <<instance, connection, conns, db, work, bcryptStrict, pwOf, heap, thr>>

ConnectAct ==
    /\ instance
    /\ \E openOk \in BOOLEAN :
          /\ openOk \/ ~IsConnected(World)
          /\ Finish(Connect(World, openOk), Call("connect", NoKey, openOk))
    /\ UNCHANGED <<instance, bcryptStrict, pwOf>>

DisconnectAct ==
    /\ instance
    /\ \E closeOk \in BOOLEAN :
          /\ closeOk \/ IsConnected(World)
          /\ Finish(Disconnect(World, closeOk), Call("disconnect", NoKey, closeOk))
    /\ UNCHANGED <<instance, bcryptStrict, pwOf>>

GetConnectionAct ==
    /\ instance
    /\ \E openOk \in BOOLEAN :
          /\ openOk \/ ~IsConnected(World)
          /\ Finish(GetConnection(World, openOk), Call("get_connection", NoKey, openOk))
    /\ UNCHANGED <<instance, bcryptStrict, pwOf>>

\* init_database() under the faults F.
InitDatabaseUnder(F) ==
    /\ instance' = TRUE
    /\ \E openOk \in BOOLEAN, fault \in F :
          /\ openOk \/ ~IsConnected(World)
          /\ openOk \/ fault.at = 0
          /\ Finish(InitDatabase(World, openOk, fault),
                    Call("init_database", NoKey, openOk /\ fault.at = 0))
    /\ UNCHANGED <<bcryptStrict, pwOf>>

InitDatabaseAct == InitDatabaseUnder(InitFaults)

InitDatabaseOk == InitDatabaseUnder({[at |-> 0, kind |-> "none"]})

\* Rows of table t the current session sees.
Count(t) == Cardinality(work.rows[t])

CreateRoleAct ==
    /\ instance
    /\ \E role_name \in ExtraRoleNames \cup {SeedRoles[1]}, env \in CreateEnvs(World) :
          /\ role_name \in ExtraRoleNames =>
                Cardinality({r \in work.rows["roles"] : r.role_name \in ExtraRoleNames})
                    < MaxExtraRefs
          /\ Finish(CreateRole(World, role_name, env),
                    Call("create_role", TextKey("roles"), CleanCreate(env)))
    /\ UNCHANGED <<instance, bcryptStrict, pwOf>>

CreateTaskStatusAct ==
    /\ instance
    /\ \E status_name \in ExtraStatusNames \cup {SeedStatuses[1]},
          env \in CreateEnvs(World) :
          /\ status_name \in ExtraStatusNames =>
                Cardinality({r \in work.rows["task_status"] :
                               r.status_name \in ExtraStatusNames}) < MaxExtraRefs
          /\ Finish(CreateTaskStatus(World, status_name, env),
                    Call("create_task_status", TextKey("task_status"), CleanCreate(env)))
    /\ UNCHANGED <<instance, bcryptStrict, pwOf>>

GetRolesAct ==
    /\ instance
    /\ \E env \in ExecEnvs(World) :
          Finish(GetRoles(World, env), Call("get_roles", NoKey, CleanExec(env)))
    /\ UNCHANGED <<instance, bcryptStrict, pwOf>>

\* create_user with a username from Ns, a plaintext from Pws, a salt from S,
\* an email from Es, a role from Rs and a manager from Ms, in an environment
\* from Envs.
CreateUserUnder(Ns, Pws, S, Es, Rs, Ms, Envs) ==
    /\ instance
    /\ Count("users") < MaxUsers
    /\ \E username \in Ns, password \in Pws, email \in Es,
          role_id \in Rs, manager_id \in Ms, salt \in S,
          env \in Envs :
          LET Done(o) ==
                  /\ Finish(o, Call("create_user",
                                    DataKey(TextKey("users"),
                                            [username |-> username, email |-> email,
                                             role_id |-> role_id,
                                             manager_id |-> manager_id]),
                                    CleanCreate(env)))
                  /\ pwOf' = IF /\ \E u \in o.w.db.rows["users"] : u.username = username
                                /\ ~\E u \in db.rows["users"] : u.username = username
                             THEN [u \in DOMAIN pwOf \cup {username} |->
                                      IF u = username THEN password ELSE pwOf[u]]
                             ELSE pwOf
          IN Done(CreateUser(World, username, password, email, role_id, manager_id,
                             salt, env))
    /\ UNCHANGED <<instance, bcryptStrict>>

CreateUserWith(Pws, S, Es, Ms) ==
    CreateUserUnder(Usernames, Pws, S, Es, {None, 1}, Ms, CreateEnvs(World))

CreateOneUser == CreateUserWith({Rep("a", 1)}, {1}, {"alice@crm"}, {None})

\* create_user with or without a manager, in few environments.
CreateSomeUser ==
    CreateUserUnder(Usernames, {Rep("a", 1)}, {1}, {"alice@crm"}, {None, 1},
                    {DefaultManagerId, 1}, SomeCreateEnvs)

CreateUserAnyPassword == CreateUserWith(Passwords, Salts, {"alice@crm"}, {None})

\* create_user where nothing fails.
CreateUserCleanly ==
    CreateUserUnder({"alice"}, {Rep("a", 1)}, {1}, {"alice@crm"}, {1}, {DefaultManagerId},
                    CleanCreateEnvs)

\* create_contact while the table holds fewer than n rows.
CreateContactWith(n, Envs) ==
    /\ instance
    /\ Count("contacts") < n
    /\ \E data \in ContactInputs, env \in Envs :
          Finish(CreateContact(World, data, env),
                 Call("create_contact", DataKey(TextKey("contacts"), data),
                      CleanCreate(env)))
    /\ UNCHANGED <<instance, bcryptStrict, pwOf>>

CreateContactAct == CreateContactWith(MaxContacts, CreateEnvs(World))

CreateTwoContacts == CreateContactWith(MaxRows, SomeCreateEnvs)

UpdateContactAct ==
    /\ instance
    /\ \E contact_id \in LookupIds, data \in ContactInputs, env \in ExecEnvs(World) :
          Finish(UpdateContact(World, contact_id, data, env),
                 Call("update_contact", DataKey(IdKey(contact_id), data),
                      CleanExec(env)))
    /\ UNCHANGED <<instance, bcryptStrict, pwOf>>

\* create_task with data from Inputs, while the table holds fewer than n rows.
CreateTaskWith(Inputs, n, Envs) ==
    /\ instance
    /\ Count("tasks") < n
    /\ \E data \in Inputs, env \in Envs :
          Finish(CreateTask(World, data, env),
                 Call("create_task", DataKey(TextKey("tasks"), data), CleanCreate(env)))
    /\ UNCHANGED <<instance, bcryptStrict, pwOf>>

CreateTaskAct == CreateTaskWith(TaskInputs, MaxTasks, CreateEnvs(World))

CreateAnyTask ==
    CreateTaskWith(TaskInputs \cup NullRefTaskInputs, MaxTasks, SomeCreateEnvs)

\* create_task of valid data where nothing fails.
CreateTwoTasks == CreateTaskWith(OwnTaskInputs, MaxRows, CleanCreateEnvs)

\* update_task_status in an environment from Envs.
UpdateTaskStatusUnder(Envs) ==
    /\ instance
    /\ \E task_id \in LookupIds, status_id \in StatusInputs, env \in Envs :
          Finish(UpdateTaskStatus(World, task_id, status_id, env),
                 Call("update_task_status",
                      DataKey(IdKey(task_id), [status_id |-> status_id]),
                      CleanExec(env)))
    /\ UNCHANGED <<instance, bcryptStrict, pwOf>>

\* verify_password with a plaintext from Pws.
VerifyPasswordWith(Pws) ==
    /\ instance
    /\ \E username \in Usernames, password \in Pws,
          env \in ExecEnvs(World) :
          Finish(VerifyPassword(World, username, password, env),
                 Call("verify_password", [TextKey(username) EXCEPT !.pw = password],
                      CleanExec(env)))
    /\ UNCHANGED <<instance, bcryptStrict, pwOf>>

\* get_user, get_user_by_username, get_contact, get_task
GetOneAct(name, Keys) ==
    /\ instance
    /\ \E key \in Keys, env \in ExecEnvs(World) :
          Finish(GetOne(World, name, key, env),
                 Call(name, IF name = "get_user_by_username" THEN TextKey(key)
                            ELSE IdKey(key), CleanExec(env)))
    /\ UNCHANGED <<instance, bcryptStrict, pwOf>>

\* get_tasks_by_user; the call's text tells the direction asked for.
UpdateTaskStatusAct == UpdateTaskStatusUnder(ExecEnvs(World))

UpdateTaskStatusQuietly ==
    UpdateTaskStatusUnder({env \in ExecEnvs(World) : env.open /\ env.fault # "lost"})

GetTasksByUserAct ==
    /\ instance
    /\ \E user_id \in LookupIds, as_manager \in BOOLEAN, env \in ExecEnvs(World) :
          Finish(GetTasksByUser(World, user_id, as_manager, env),
                 Call("get_tasks_by_user",
                      [IdKey(user_id) EXCEPT !.text = IF as_manager THEN "as_manager"
                                                      ELSE "as_assignee"],
                      CleanExec(env)))
    /\ UNCHANGED <<instance, bcryptStrict, pwOf>>

VerifyPasswordAct == VerifyPasswordWith({Rep("a", 1), Append(Rep("a", 1), "x")})

VerifyAnyPassword == VerifyPasswordWith(Candidates)

GetUserAct == GetOneAct("get_user", LookupIds)
GetUserByUsernameAct == GetOneAct("get_user_by_username", Usernames)
GetContactAct == GetOneAct("get_contact", LookupIds)
GetTaskAct == GetOneAct("get_task", LookupIds)

-----------------------------------------------------------------------------
(* Specifications *)

\* Connection manager and schema initializer, with reference data.
Next ==
    \/ New
    \/ Drop
    \/ ConnectAct
    \/ DisconnectAct
    \/ GetConnectionAct
    \/ InitDatabaseAct
    \/ CreateRoleAct
    \/ GetRolesAct

Spec == Init /\ [][Next]_vars

\* The executor under the contact repository and the status reference data.
NextExec ==
    \/ New
    \/ Drop
    \/ InitDatabaseOk
    \/ CreateTaskStatusAct
    \/ CreateContactAct
    \/ UpdateContactAct
    \/ GetContactAct

SpecExec == Init /\ [][NextExec]_vars

\* The repositories over an initialized schema.
NextRepo ==
    \/ New
    \/ Drop
    \/ InitDatabaseOk
    \/ CreateOneUser
    \/ CreateContactAct
    \/ CreateTaskAct
    \/ VerifyPasswordAct
    \/ GetUserAct
    \/ GetUserByUsernameAct
    \/ GetContactAct
    \/ GetTaskAct

SpecRepo == Init /\ [][NextRepo]_vars

\* Users and their passwords, under either bcrypt.
NextUser ==
    \/ New
    \/ InitDatabaseOk
    \/ CreateUserAnyPassword
    \/ VerifyAnyPassword

\* Tasks and the users they name, with the server's clock running.
\* The task listings.
NextTask ==
    \/ InitDatabaseOk
    \/ CreateSomeUser
    \/ CreateAnyTask
    \/ GetTasksByUserAct

SpecTask == Init /\ [][NextTask]_vars

\* The task writes, with the server clock.
NextStatus ==
    \/ Tick
    \/ InitDatabaseOk
    \/ CreateUserCleanly
    \/ CreateTwoTasks
    \/ UpdateTaskStatusQuietly

SpecStatus == Init /\ [][NextStatus]_vars

\* The contact writes, with the server clock.
NextContact ==
    \/ Tick
    \/ InitDatabaseOk
    \/ CreateTwoContacts
    \/ UpdateContactAct

SpecContact == Init /\ [][NextContact]_vars

\* bcrypt either truncates at 72 bytes or rejects longer input.
InitUser == InitWith(BOOLEAN)

SpecUser == InitUser /\ [][NextUser]_vars

-----------------------------------------------------------------------------
(* Properties *)

LiveHandles == {h \in DOMAIN conns : conns[h].live}

\* The calls that reach connect() at most once: a create method makes two
\* executor calls, between which the link can be lost.
ConnectOnce == {"connect", "get_connection", "init_database", "get_roles"}

\* Every table exists and every seeded name has exactly one row.
SchemaComplete(d) ==
    /\ d.tables = TableNames
    /\ \A n \in SeqToSet(SeedRoles) :
          Cardinality({r \in d.rows["roles"] : r.role_name = n}) = 1
    /\ \A n \in SeqToSet(SeedStatuses) :
          Cardinality({r \in d.rows["task_status"] : r.status_name = n}) = 1

\* No seeded name has two rows.
SeedsAtMostOnce(d) ==
    /\ \A n \in SeqToSet(SeedRoles) :
          Cardinality({r \in d.rows["roles"] : r.role_name = n}) <= 1
    /\ \A n \in SeqToSet(SeedStatuses) :
          Cardinality({r \in d.rows["task_status"] : r.status_name = n}) <= 1

\* C1: at most one handle is live, a live handle is the one the manager
\* stores, and connect() (called directly, or by get_connection(), by
\* init_database() or by an executor call) opens a connection only if the
\* handle the manager held was absent or not live.
C1_AtMostOneLiveHandle ==
    /\ Cardinality(LiveHandles) <= 1
    /\ LiveHandles \subseteq {connection}
    /\ (op.name \in ConnectOnce /\ ret.opens > 0) => ~op.heldLive

\* C1 witness: connect() has replaced a dead handle by a second, live one.
C1_Witness ==
    /\ op.name = "connect"
    /\ ret.opens = 1
    /\ Len(conns) = 2
    /\ LiveHandles = {2}
    /\ connection = 2

\* C2: a get_connection() that returns hands out the stored handle, which is
\* live; it opens a connection exactly when the held handle was absent or
\* stale, and returns the held handle itself when that was live.
C2_GetConnectionReturnsLive ==
    (op.name = "get_connection" /\ ret.kind = "ok") =>
        /\ ret.id = connection
        /\ IsConnected(World)
        /\ ret.opens = (IF op.heldLive THEN 0 ELSE 1)
        /\ op.heldLive => ret.id = op.held

\* C2 witness: get_connection() found a stale handle and returned a new one.
C2_Witness ==
    /\ op.name = "get_connection"
    /\ ret.kind = "ok"
    /\ op.held # None
    /\ ~op.heldLive
    /\ ret.id # op.held

\* C3: a connect(), get_connection(), init_database() or executor call in
\* which the open fails makes one open attempt, raises ConnectionError, and
\* leaves the stored handle, the handles and the database as they were.
C3_FailedOpenIsNotRetried ==
    [][(op'.name \in ConnectOnce /\ ret'.kind = "raise" /\ ret'.cause = "open") =>
          /\ ret'.opens = 1
          /\ ret'.err = "ConnectionError"
          /\ connection' = connection
          /\ conns' = conns
          /\ db' = db]_vars

\* C3 witness: an executor call met a stale handle and the reopen failed.
C3_Witness ==
    /\ op.name = "get_roles"
    /\ ret.kind = "raise"
    /\ ret.cause = "open"
    /\ op.held # None
    /\ connection = op.held

\* C4: an init_database() the environment does not disturb raises nothing and
\* leaves a complete schema with each seeded name once; run on a complete
\* schema it changes no table and no row; no state holds a seeded name twice.
C4_InitIsIdempotent ==
    /\ SeedsAtMostOnce(db)
    /\ (op.name = "init_database" /\ op.clean) =>
          /\ ret.kind = "ok"
          /\ SchemaComplete(db)
          /\ SchemaComplete(before) =>
                (db.tables = before.tables /\ db.rows = before.rows)

\* C4 witness: init_database() ran again on a complete schema that had
\* gained a role since.
C4_Witness ==
    /\ op.name = "init_database"
    /\ op.clean
    /\ ret.kind = "ok"
    /\ SchemaComplete(before)
    /\ \E r \in before.rows["roles"] : r.role_name \in ExtraRoleNames

\* C5 (as claimed): an init_database() that raises leaves the committed
\* database as it was, and one that returns has committed exactly once.
C5_InitIsAllOrNothing ==
    op.name = "init_database" =>
        /\ ret.kind = "raise" => db = before
        /\ ret.kind = "ok" => ret.commits = 1

\* The rows of table t with key k.
RowsWithKey(d, t, k) == {r \in d.rows[t] : r[KeyOf(t)] = k}

CleanEnv == [open |-> TRUE, fault |-> "none"]

\* The create methods run under SpecExec: an INSERT call, then an id query.
ExecCreates == {"create_contact", "create_task_status"}

\* The statements the contact repository hands the executor, with its fetch.
ContactStatements ==
    {[stmt |-> [kind |-> "select", name |-> "get_contact", arg |-> k], fetch |-> TRUE] :
        k \in LookupIds}
    \cup {[stmt |-> UpdateContactStmt(k, data), fetch |-> FALSE] :
        k \in LookupIds, data \in ContactInputs}
    \cup {[stmt |-> [kind |-> "last_insert_id"], fetch |-> TRUE]}

\* C6: an executor call that succeeds with fetch = TRUE returns the result
\* rows, commits nothing and changes nothing; one that succeeds with
\* fetch = FALSE commits once, returns None and leaves nothing pending.  So
\* get_contact commits nothing, update_contact commits once, create_contact
\* and create_task_status commit once (the INSERT; the id query fetches), and
\* after each the session holds nothing uncommitted.
C6_CommitDiscipline ==
    /\ instance =>
          \A q \in ContactStatements :
             LET o == ExecuteQuery(World, q.stmt, q.fetch, CleanEnv)
             IN o.kind = "ok" =>
                   IF q.fetch
                   THEN /\ o.commits = 0 /\ o.w.db = db /\ o.w.work = work
                        /\ q.stmt.kind = "select" =>
                              o.val = SortedRows(RowsWithKey(work, "contacts", q.stmt.arg),
                                                 "contact_id")
                   ELSE o.commits = 1 /\ o.val = None /\ o.w.work = o.w.db
    /\ (ret.kind = "ok" /\ op.name = "get_contact") =>
          /\ ret.commits = 0
          /\ db = before
          /\ ret.rows = SortedRows(RowsWithKey(db, "contacts", op.id), "contact_id")
    /\ (ret.kind = "ok" /\ op.name \in {"update_contact"} \cup ExecCreates) =>
          (ret.commits = 1 /\ work = db)

\* C6 witness: an update_contact returned and its new row is committed.
C6_Witness ==
    /\ op.name = "update_contact"
    /\ ret.kind = "ok"
    /\ ret.commits = 1
    /\ db # before
    /\ work = db

\* C7: an executor call whose statement fails issues one rollback and raises
\* a database error that carries the failure; after a get_contact or an
\* update_contact that failed so, the committed database and what the
\* session reads are what they were before the call; a create_contact or
\* create_task_status whose INSERT failed has committed nothing.
C7_FailureRollsBack ==
    (op.name \in {"get_contact", "update_contact"} \cup ExecCreates
       /\ ret.kind = "raise" /\ ret.cause \in {"stmt", "lost"}) =>
        /\ ret.rollbacks = 1
        /\ ret.err \in {"IntegrityError", "DatabaseError", "OperationalError",
                        "NoSuchTable", "UnknownColumn", "InterfaceError"}
        /\ work = db
        /\ (op.name \notin ExecCreates \/ ret.commits = 0) =>
              (ret.commits = 0 /\ db = before)

\* C7 witness: an update_contact of an existing contact broke a foreign key.
C7_Witness ==
    /\ op.name = "update_contact"
    /\ ret.kind = "raise"
    /\ ret.err = "IntegrityError"
    /\ RowsWithKey(before, "contacts", op.id) # {}
    /\ db = before

Creates ==
    {"create_user", "create_contact", "create_task", "create_role", "create_task_status"}

\* C8 (as claimed): a create that returns, returns the key of a row that it
\* added to its table.
C8_CreateReturnsNewId ==
    (op.name \in Creates /\ ret.kind = "ok") =>
        \E r \in db.rows[op.text] \ before.rows[op.text] : r[KeyOf(op.text)] = ret.id

\* C9 (as claimed): for a user made by create_user with plaintext P,
\* verify_password(username, P) returns True, verify_password(username, P + "x")
\* returns False, and the stored hash is not P.
C9_PasswordRoundTrip ==
    (op.name = "verify_password" /\ op.clean /\ op.text \in DOMAIN pwOf) =>
        LET P == pwOf[op.text]
        IN /\ op.pw = P => (ret.kind = "ok" /\ ret.flag)
           /\ op.pw = Append(P, "x") => (ret.kind = "ok" /\ ~ret.flag)
           /\ \A u \in db.rows["users"] :
                 u.username = op.text => u.password_hash # Encode(P)

Lookups == {"verify_password", "get_user", "get_user_by_username", "get_contact", "get_task"}

\* No row of database d has the key the lookup c asks for.
UnknownKey(d, c) ==
    CASE c.name = "verify_password" -> ~\E u \in d.rows["users"] : u.username = c.text
      [] c.name = "get_user" -> RowsWithKey(d, "users", c.id) = {}
      [] c.name = "get_user_by_username" ->
           ~\E u \in d.rows["users"] : u.username = c.text
      [] c.name = "get_contact" -> RowsWithKey(d, "contacts", c.id) = {}
      [] c.name = "get_task" -> RowsWithKey(d, "tasks", c.id) = {}

\* C10 (as claimed): on an initialized schema, with nothing failing around
\* it, a lookup of a key no row has returns False (verify_password) or
\* absent (the get methods), raises nothing and changes nothing.
C10_UnknownKeyIsAbsent ==
    (op.name \in Lookups /\ op.clean /\ SchemaComplete(before)
       /\ UnknownKey(before, op)) =>
        /\ ret.kind = "ok"
        /\ ~ret.flag
        /\ ret.rows = <<>>
        /\ db = before

\* C11 (as claimed): on an initialized schema, with nothing failing around
\* it, get_user(id) returns absent when no user row has that id, and otherwise
\* one record: that user's, with the role_name of the role its role_id names.
C11_GetUserJoinsRole ==
    (op.name = "get_user" /\ op.clean /\ SchemaComplete(before)) =>
        /\ ret.kind = "ok"
        /\ IF RowsWithKey(before, "users", op.id) = {} THEN ret.rows = <<>>
           ELSE /\ Len(ret.rows) = 1
                /\ ret.rows[1].user_id = op.id
                /\ \E r \in before.rows["roles"] :
                      /\ r.role_id = ret.rows[1].role_id
                      /\ r.role_name = ret.rows[1].role_name

\* The tasks of database d that name user u in column c.
TasksOf(d, c, u) == {t \in d.rows["tasks"] : t[c] = u}

\* C12 (as claimed): on the schema of init_database, with nothing failing
\* around it, get_tasks_by_user(user, as_manager) raises nothing and returns
\* exactly the tasks assigned to the user (as_manager false) or assigned by
\* the user (as_manager true), each once, by ascending due date.
C12_TaskDirectionFilter ==
    (op.name = "get_tasks_by_user" /\ op.clean /\ SchemaComplete(before)) =>
        LET want == TasksOf(before, IF op.text = "as_manager" THEN "assigned_by"
                                    ELSE "assigned_to", op.id)
        IN /\ ret.kind = "ok"
           /\ Len(ret.rows) = Cardinality(want)
           /\ {r.task_id : r \in SeqToSet(ret.rows)} = {t.task_id : t \in want}
           /\ \A i, j \in 1..Len(ret.rows) :
                 i < j => ret.rows[i].due_date <= ret.rows[j].due_date

\* C13 (as claimed): in every state each task's assignee and assigner is an
\* existing user and its status an existing status, and each user's manager,
\* if set, is an existing user; a create or update the server refuses for a
\* constraint leaves the database as it was.
C13_ReferentialIntegrity ==
    LET users == {u.user_id : u \in db.rows["users"]}
        statuses == {x.status_id : x \in db.rows["task_status"]}
    IN /\ \A t \in db.rows["tasks"] :
             t.assigned_to \in users /\ t.assigned_by \in users /\ t.status_id \in statuses
       /\ \A u \in db.rows["users"] : u.manager_id # None => u.manager_id \in users
       /\ (op.name \in {"create_user", "create_task", "update_task_status"}
             /\ ret.kind = "raise" /\ ret.err = "IntegrityError") => db = before

-----------------------------------------------------------------------------
\* The columns update_contact sets from data, and what `data[...]` / `data.get(...)`
\* gives for each.
ContactFields ==
    {"first_name", "last_name", "email", "phone", "company", "assigned_to", "notes"}
Given(data, f) ==
    IF f \in DOMAIN data THEN data[f] ELSE IF f = "assigned_to" THEN None ELSE NullStr

\* C14: after a successful update_contact(id, data) on an existing contact the
\* row with that id holds, in each of the seven data columns, the value data
\* gives (NULL where data has no entry, whatever the row held before), its
\* updated_at is the server's current time, and every other contact row and
\* every other table is as it was.
C14_UpdateContactOverwrites ==
    (/\ op.name = "update_contact"
     /\ ret.kind = "ok"
     /\ RowsWithKey(before, "contacts", op.id) # {}) =>
        /\ ret.flag
        /\ Cardinality(RowsWithKey(db, "contacts", op.id)) = 1
        /\ \A r \in RowsWithKey(db, "contacts", op.id) :
              /\ \A f \in ContactFields : r[f] = Given(op.data, f)
              /\ r.updated_at = now
        /\ db.rows["contacts"] \ RowsWithKey(db, "contacts", op.id)
              = before.rows["contacts"] \ RowsWithKey(before, "contacts", op.id)
        /\ \A t \in TableNames \ {"contacts"} : db.rows[t] = before.rows[t]

\* An update that drops a stored email, a second later, beside another contact.
C14_Witness ==
    /\ op.name = "update_contact"
    /\ ret.kind = "ok"
    /\ "email" \notin DOMAIN op.data
    /\ \E r \in RowsWithKey(before, "contacts", op.id) :
          r.email # NullStr /\ r.updated_at < now
    /\ \E r \in RowsWithKey(db, "contacts", op.id) : r.email = NullStr
    /\ Cardinality(db.rows["contacts"]) = 2

-----------------------------------------------------------------------------
\* The rows of table t the last call added.
NewRows(t) == db.rows[t] \ before.rows[t]

\* C15: a create_task with data that has no priority entry, naming existing
\* users and an existing status, on the complete schema and with nothing
\* failing, succeeds, and whenever such a call succeeds it adds one row whose
\* priority is "medium"; a create_user called with the default
\* manager_id, a fresh username and email, on the complete schema and with
\* nothing failing, succeeds and adds a row whose manager_id is NULL.
C15_Defaults ==
    /\ (op.name = "create_task" /\ ret.kind = "ok" /\ "priority" \notin DOMAIN op.data) =>
          /\ Cardinality(NewRows("tasks")) = 1
          /\ \A r \in NewRows("tasks") : r.priority = "medium"
    /\ (/\ op.name = "create_task"
        /\ op.clean
        /\ SchemaComplete(before)
        /\ "priority" \notin DOMAIN op.data
        /\ RowsWithKey(before, "users", op.data.assigned_to) # {}
        /\ RowsWithKey(before, "users", op.data.assigned_by) # {}
        /\ RowsWithKey(before, "task_status", op.data.status_id) # {}) =>
          ret.kind = "ok"
    /\ (/\ op.name = "create_user"
        /\ op.clean
        /\ SchemaComplete(before)
        /\ op.data.manager_id = DefaultManagerId
        /\ ~\E u \in before.rows["users"] :
               u.username = op.data.username \/ u.email = op.data.email) =>
          /\ ret.kind = "ok"
          /\ Cardinality(NewRows("users")) = 1
          /\ \A r \in NewRows("users") :
                r.username = op.data.username /\ r.manager_id = None

\* A task stored with the default priority, assigned by a user stored without
\* a manager.
C15_Witness ==
    /\ op.name = "create_task"
    /\ ret.kind = "ok"
    /\ "priority" \notin DOMAIN op.data
    /\ \E r \in NewRows("tasks") :
          /\ r.priority = "medium"
          /\ \E u \in db.rows["users"] : u.user_id = r.assigned_by /\ u.manager_id = None

-----------------------------------------------------------------------------
\* C16: a call that lets a database error out has written exactly one error
\* log entry.
C16_FailureLoggedOnce ==
    (ret.kind = "raise" /\ ret.err # "ValueError") => ret.logs = 1

-----------------------------------------------------------------------------
\* C19: an update_task_status(task_id, status_id) that succeeds leaves every
\* table but tasks and every task row but the one with that id as it was, and
\* that row, if there is one, differs from what it was in status_id (now the
\* given one) and updated_at (now the server's current time) only; with no
\* such row nothing changes.  On the complete schema and with nothing failing
\* the call succeeds for every existing status, whatever the row held.
C19_StatusUpdateIsNarrow ==
    /\ (op.name = "update_task_status" /\ ret.kind = "ok") =>
          /\ ret.flag
          /\ \A t \in TableNames \ {"tasks"} : db.rows[t] = before.rows[t]
          /\ db.rows["tasks"] \ RowsWithKey(db, "tasks", op.id)
                = before.rows["tasks"] \ RowsWithKey(before, "tasks", op.id)
          /\ RowsWithKey(db, "tasks", op.id)
                = {[r EXCEPT !.status_id = op.data.status_id, !.updated_at = now] :
                      r \in RowsWithKey(before, "tasks", op.id)}
    /\ (/\ op.name = "update_task_status"
        /\ op.clean
        /\ SchemaComplete(before)
        /\ RowsWithKey(before, "task_status", op.data.status_id) # {}) =>
          ret.kind = "ok"

\* A high-priority task taken back from in_progress to not_started, a second
\* after it was written, beside another task.
C19_Witness ==
    /\ op.name = "update_task_status"
    /\ ret.kind = "ok"
    /\ Cardinality(db.rows["tasks"]) = 2
    /\ \E r \in RowsWithKey(before, "tasks", op.id) :
          /\ r.status_id = 2
          /\ r.priority = "high"
          /\ r.updated_at < now
    /\ \E r \in RowsWithKey(db, "tasks", op.id) : r.status_id = 1 /\ r.updated_at = now

-----------------------------------------------------------------------------
\* C20: a create call that raises leaves the committed rows of every table
\* as they were before the call.
C20_FailedCreateStoresNothing ==
    (op.name \in Creates /\ ret.kind = "raise") =>
        \A t \in TableNames : db.rows[t] = before.rows[t]

-----------------------------------------------------------------------------
(* Two threads on their first use of DatabaseConnection, statement by       *)
(* statement.  Nothing in the class takes a lock, so the interpreter may    *)
(* switch threads between any two statements.                               *)

\* The object exists but `connection` has not been assigned yet.
Unset == -1

\* What `self.connection` of object o is; the attribute the one-thread
\* variables `instance` and `connection` mirror is that of cls._instance.
Stored(h, o) == h.objs[o].connection
Singleton(h) ==
    IF h.cls = None \/ Stored(h, h.cls) = Unset THEN None ELSE Stored(h, h.cls)

\* `not self.connection or not self.connection.is_connected()` on object o.
NeedsConnect(o) == Stored(heap, o) = None \/ ~conns[Stored(heap, o)].live

\* Thread t moves to pc p with the heap h and the handles c.
Step(t, p, h, c) ==
    /\ thr' = [thr EXCEPT ![t].pc = p]
    /\ heap' = h
    /\ conns' = c
    /\ instance' = (h.cls # None)
    /\ connection' = Singleton(h)
    /\ UNCHANGED <<db, work, bcryptStrict, pwOf, op, ret, before, now>>

\* __new__, line 15: `if cls._instance is None:`
NewCheck(t) ==
    /\ thr[t].pc = "idle"
    /\ Step(t, IF heap.cls = None THEN "new16" ELSE "new18", heap, conns)

\* __new__, line 16: `cls._instance = super().__new__(cls)`
NewCreate(t) ==
    /\ thr[t].pc = "new16"
    /\ Step(t, "new17",
            [cls |-> Len(heap.objs) + 1,
             objs |-> Append(heap.objs, [connection |-> Unset])], conns)

\* __new__, line 17: `cls._instance.connection = None`
NewReset(t) ==
    /\ thr[t].pc = "new17"
    /\ Step(t, "new18", [heap EXCEPT !.objs[heap.cls].connection = None], conns)

\* __new__, line 18: `return cls._instance`
NewReturn(t) ==
    /\ thr[t].pc = "new18"
    /\ thr' = [thr EXCEPT ![t].pc = "have", ![t].self = heap.cls]
    /\ UNCHANGED <<instance, connection, conns, db, work, bcryptStrict, pwOf, op, ret,
                   before, now, heap>>

\* get_connection, line 42: the test; reading an attribute that is not there
\* yet raises AttributeError.
GetCheck(t) ==
    /\ thr[t].pc = "have"
    /\ IF Stored(heap, thr[t].self) = Unset
       THEN /\ thr' = [thr EXCEPT ![t].pc = "raised", ![t].res = "AttributeError"]
            /\ UNCHANGED <<instance, connection, conns, db, work, bcryptStrict, pwOf, op,
                           ret, before, now, heap>>
       ELSE Step(t, IF NeedsConnect(thr[t].self) THEN "connect23" ELSE "get44",
                 heap, conns)

\* connect, line 23: the same test again.
ConnectCheck(t) ==
    /\ thr[t].pc = "connect23"
    /\ Step(t, IF NeedsConnect(thr[t].self) THEN "connect24" ELSE "get44", heap, conns)

\* connect, line 24: `self.connection = mysql.connector.connect(**DB_CONFIG)`
ConnectOpen(t) ==
    /\ thr[t].pc = "connect24"
    /\ Len(conns) < MaxOpens
    /\ \E openOk \in BOOLEAN :
          IF openOk
          THEN Step(t, "get44",
                    [heap EXCEPT !.objs[thr[t].self].connection = Len(conns) + 1],
                    Append(conns, [live |-> TRUE, lastId |-> 0]))
          ELSE /\ thr' = [thr EXCEPT ![t].pc = "raised", ![t].res = "ConnectionError"]
               /\ UNCHANGED <<instance, connection, conns, db, work, bcryptStrict, pwOf,
                              op, ret, before, now, heap>>

\* get_connection, line 44: `return self.connection`
GetReturn(t) ==
    /\ thr[t].pc = "get44"
    /\ thr' = [thr EXCEPT ![t].pc = "done", ![t].conn = Stored(heap, thr[t].self),
                          ![t].res = "ok"]
    /\ UNCHANGED <<instance, connection, conns, db, work, bcryptStrict, pwOf, op, ret,
                   before, now, heap>>

\* The caller goes on to its next `DatabaseConnection().get_connection()`.
Again(t) ==
    /\ thr[t].pc \in {"done", "raised"}
    /\ thr[t].calls < MaxCalls
    /\ thr' = [thr EXCEPT ![t] = [IdleThread EXCEPT !.calls = thr[t].calls + 1]]
    /\ UNCHANGED <<instance, connection, conns, db, work, bcryptStrict, pwOf, op, ret,
                   before, now, heap>>

NextFirstUse ==
    \E t \in Threads :
        \/ NewCheck(t)
        \/ NewCreate(t)
        \/ NewReset(t)
        \/ NewReturn(t)
        \/ GetCheck(t)
        \/ ConnectCheck(t)
        \/ ConnectOpen(t)
        \/ GetReturn(t)
        \/ Again(t)

SpecFirstUse == Init /\ [][NextFirstUse]_vars

\* C18: at most one DatabaseConnection object is ever allocated, every
\* thread that holds an instance holds that one, a handle that is open is
\* the one the instance stores, and so at most one connection is open.
C18_OneInstanceOneConnection ==
    /\ Len(heap.objs) <= 1
    /\ \A t \in Threads : thr[t].self \in {None, heap.cls}
    /\ \A h \in DOMAIN conns : conns[h].live => Singleton(heap) = h

-----------------------------------------------------------------------------
(* Two threads in _execute_query(INSERT INTO contacts ..., fetch=False) on  *)
(* the one instance, statement by statement.                                *)

\* The world as thread t's local `connection` sees it.
WorldOf(t) == [World EXCEPT !.connection = thr[t].conn]

\* The INSERT of create_contact for data.
ContactInsert(data) ==
    [kind |-> "insert", table |-> "contacts", ignore |-> FALSE,
     rows |-> <<[f \in ContactFields |-> Given(data, f)]>>]

\* What the threads insert: a contact nobody is assigned, and one assigned to
\* a user that does not exist.
ThreadInputs == {d \in ContactInputs : "email" \notin DOMAIN d}

\* Thread t takes its next step in world w, becoming th; the other threads
\* become what rest gives.
Shared(t, w, th, rest) ==
    /\ connection' = w.connection
    /\ conns' = w.conns
    /\ db' = w.db
    /\ work' = w.work
    /\ heap' = Mirror(w.connection)
    /\ thr' = [rest EXCEPT ![t] = th]
    /\ UNCHANGED <<instance, bcryptStrict, pwOf, op, ret, before, now>>

Same == thr

\* Lines 18-19: `connection = self.db.get_connection()`, the cursor.
ExecBegin(t) ==
    /\ instance
    /\ thr[t].pc = "idle"
    /\ \E data \in ThreadInputs, fault \in {"none", "sql"} :
          LET Got(g) ==
                  /\ g.kind = "ok"
                  /\ Len(g.w.conns) <= MaxOpens
                  /\ Shared(t, g.w,
                            [thr[t] EXCEPT !.pc = "execute21", !.self = heap.cls,
                                           !.conn = g.val, !.data = data,
                                           !.fault = fault], Same)
          IN Got(GetConnection(World, TRUE))

\* Line 21: `cursor.execute(query, params)`.
ExecRun(t) ==
    /\ thr[t].pc = "execute21"
    /\ LET Ran(r) ==
               IF thr[t].fault = "sql" \/ r.err # "none"
               THEN Shared(t, World, [thr[t] EXCEPT !.pc = "except28"], Same)
               ELSE Shared(t, [r.w EXCEPT !.connection = connection],
                           [thr[t] EXCEPT !.pc = "commit24",
                                          !.wrote = r.w.work.rows["contacts"]
                                                       \ work.rows["contacts"]], Same)
       IN Ran(RunStmt(WorldOf(t), ContactInsert(thr[t].data)))

\* No commit: the call returns with its statement pending.
ExecCommit_Skip(t) ==
    /\ thr[t].pc = "commit24"
    /\ Shared(t, World, [thr[t] EXCEPT !.pc = "done", !.res = "ok"], Same)

\* Lines 24-25: `connection.commit()`; `return None`.
ExecCommit(t) ==
    /\ thr[t].pc = "commit24"
    /\ Shared(t, [CommitWork(WorldOf(t)) EXCEPT !.connection = connection],
              [thr[t] EXCEPT !.pc = "done", !.res = "ok"], Same)

\* Lines 28-30: `connection.rollback()`, the log line, `raise`.  The
\* rollback undoes whatever is pending on the handle: a thread that has
\* executed and not yet committed has its statement undone with it.
ExecRollback(t) ==
    /\ thr[t].pc = "except28"
    /\ LET Crossed ==
               [u \in Threads |->
                   IF thr[u].pc = "commit24" /\ thr[u].conn = thr[t].conn
                   THEN [thr[u] EXCEPT !.crossed = TRUE] ELSE thr[u]]
       IN Shared(t, [RollbackWork(WorldOf(t)) EXCEPT !.connection = connection],
                 [thr[t] EXCEPT !.pc = "raised", !.res = "DatabaseError"], Crossed)

NextThreads ==
    \/ InitDatabaseOk
    \/ \E t \in Threads :
          \/ ExecBegin(t)
          \/ ExecRun(t)
          \/ ExecCommit(t)
          \/ ExecRollback(t)
          \/ Again(t)

SpecThreads == Init /\ [][NextThreads]_vars

\* The rows thread t's statement wrote are not all in the committed database.
Lost(t) == ~(thr[t].wrote \subseteq db.rows["contacts"])

\* C17: a call that returned success leaves its row out of the committed
\* database only when another caller's rollback ran on the shared handle
\* between this call's execute and its commit.
C17_LostOnlyToForeignRollback ==
    \A t \in Threads :
        (thr[t].pc = "done" /\ thr[t].res = "ok" /\ Lost(t)) => thr[t].crossed

\* One caller has returned success and its row is gone, the other caller's
\* failed call having rolled it back.
C17_Witness ==
    \E t \in Threads, u \in Threads :
        /\ t # u
        /\ thr[t].pc = "done" /\ thr[t].res = "ok"
        /\ thr[t].wrote # {} /\ Lost(t)
        /\ thr[t].crossed
        /\ thr[u].pc = "raised"
        /\ thr[u].conn = thr[t].conn
====
